---- MODULE Spec2Model ----
(***************************************************************************)
(* A model of the chat-app-server services.                                *)
(*                                                                         *)
(*   - chunkText                      src/src/services.ts:54-60            *)
(*   - cosineSimilarity, handleChat   src/src/services.ts:68-76, 134-186   *)
(*     over the in-process vectorStore (src/src/services.ts:44)            *)
(*   - handleGenerate, the tool dispatcher, with the handleChat it calls   *)
(*     for the retrieval tool         src/unnamed/part_000:144-330         *)
(*   - getToken                       src/unnamed/part_001:12-34           *)
(*   - handleFileUpload, handleGenerate on the in-process store            *)
(*                                    src/src/services.ts:87-123, 194-206  *)
(*   - handleFileUpload on the remote index                                *)
(*                                    src/unnamed/part_000:88-133          *)
(*                                                                         *)
(* Strings are sequences of characters (the long texts of the remote      *)
(* upload are TLA+ strings).  JavaScript's undefined and null              *)
(* are the strings "undefined" and "null".  Each async function is a       *)
(* process whose position (pc) names the await it is suspended at, or the  *)
(* head of its loop; an action is the code that runs from there to the     *)
(* next such position.  A failed await that nothing catches rejects the    *)
(* promise of the function ("rejected").                                   *)
(***************************************************************************)
EXTENDS Integers, Sequences, FiniteSets, TLC

VARIABLES
    \* ---- chunkText (one call, stepped through its for loop)
    ct_text,        \* parameter text
    ct_chunkSize,   \* parameter chunkSize
    ct_i,           \* loop variable i
    ct_chunks,      \* local chunks
    ct_pc,          \* "loop" | "returned"
    \* ---- in-process store and one handleChat request (services.ts)
    vectorStore,    \* the module-level array vectorStore
    c_pc,           \* "idle" | "awaitEmbed" | "awaitGenerate" | "returned" | "rejected"
    c_query,        \* parameter query
    c_queryEmbedding, \* local queryEmbedding
    c_similarDocs,  \* local similarDocs
    c_prompt,       \* local prompt (the contents of the generation call)
    c_answer,       \* the value the promise resolved with
    c_log,          \* history: every outbound call handleChat issued, in order
    c_lenAtCall,    \* history: the length of the store when handleChat was called
    \* ---- one handleGenerate request (part_000)
    g_pc,           \* position of handleGenerate
    g_history,      \* parameter history
    g_query,        \* parameter query
    g_chatModel,    \* the initial response: [text, functionCalls]
    g_functionRes,  \* the follow-up response: [text, functionCalls]
    g_idx,          \* position of the for..of loop in chatModel.functionCalls (1-based)
    g_results,      \* local results
    g_token,        \* local token of the create_zoom_meeting branch
    g_chat,         \* locals of the handleChat call of the retrieval branch
    g_answer,       \* the value the promise resolved with
    g_rejection,    \* the call whose failure rejected the promise
    g_log,          \* history: every outbound call issued, in order
    \* ---- one call of cosineSimilarity (services.ts)
    cs_vecA,        \* parameter vecA
    cs_vecB,        \* parameter vecB
    cs_divided,     \* the division of line 75 was executed
    cs_result,      \* the value returned
    cs_pc,          \* "called" | "returned"
    \* ---- handleFileUpload requests on the in-process store (services.ts),
    \*      one per uploader; each variable is a function of the uploader
    u_pc,           \* "idle" | "awaitParse" | "awaitEmbed" | "returned" | "rejected"
    u_documentId,   \* local documentId
    u_text,         \* local text.text, the text pdfParse extracted
    u_chunks,       \* local chunks
    u_idx,          \* position of the for..of loop in chunks (1-based)
    u_calls,        \* history: the chunks (by position) whose embedding was requested
    u_result,       \* the value the promise resolved with
    uuids,          \* how many ids uuidv4 has generated
    \* ---- one handleGenerate request of services.ts
    sg_pc,          \* "idle" | "awaitGenerate" | "returned" | "rejected"
    sg_answer,      \* the value the promise resolved with
    \* ---- one handleFileUpload request on the remote index (part_000)
    ru_pc,          \* "idle" | "awaitParse" | "awaitInit" | "awaitEmbed" | "awaitUpsert" |
                    \* "returned" | "rejected"
    ru_documentId,  \* local documentId
    ru_chunks,      \* local chunks
    ru_idx,         \* position of the for..of loop in chunks (1-based)
    ru_vectorsToUpsert, \* local vectorsToUpsert
    ru_i,           \* loop variable i of the batch loop
    ru_index,       \* the vectors the remote index holds
    ru_calls,       \* history: every embedContent and upsert call issued, in order
    ru_result,      \* the value the promise resolved with
    ru_rejection,   \* the await that failed and the error the promise rejected with
    ru_uuids        \* how many ids uuidv4 has generated

chunkVars == <<ct_text, ct_chunkSize, ct_i, ct_chunks, ct_pc>>
chatVars == <<vectorStore, c_pc, c_query, c_queryEmbedding, c_similarDocs, c_prompt, c_answer,
             c_log, c_lenAtCall>>
\* The variables of handleChat without the store.
chatOnlyVars == <<c_pc, c_query, c_queryEmbedding, c_similarDocs, c_prompt, c_answer, c_log,
                 c_lenAtCall>>
genVars == <<g_pc, g_history, g_query, g_chatModel, g_functionRes, g_idx, g_results, g_token, g_chat,
             g_answer, g_rejection, g_log>>
cosVars == <<cs_vecA, cs_vecB, cs_divided, cs_result, cs_pc>>
upVars == <<u_pc, u_documentId, u_text, u_chunks, u_idx, u_calls, u_result, uuids>>
sgVars == <<sg_pc, sg_answer>>
remoteVars == <<ru_pc, ru_documentId, ru_chunks, ru_idx, ru_vectorsToUpsert, ru_i, ru_index, ru_calls,
                ru_result, ru_rejection, ru_uuids>>
vars == <<chunkVars, chatVars, genVars, cosVars, upVars, sgVars, remoteVars>>

Undefined == "undefined"
Null == "null"

Min(a, b) == IF a <= b THEN a ELSE b
Max(a, b) == IF a >= b THEN a ELSE b

RECURSIVE Concat(_)
\* The concatenation of a sequence of strings.
Concat(ss) == IF ss = <<>> THEN <<>> ELSE Head(ss) \o Concat(Tail(ss))

(***************************************************************************)
(* chunkText                                                               *)
(***************************************************************************)
MaxTextLen == 4
MaxChunkSize == 3
\* How many iterations of a loop that does not terminate are followed.
MaxLoopObserved == 3

Chars == {"a", "b"}
Texts == UNION {[1..n -> Chars] : n \in 0..MaxTextLen}
ChunkSizes == (0 - MaxChunkSize)..MaxChunkSize

\* A substring mutated: the start index is taken one too far.
substringSkipsFirst(text, start, end) ==
    LET len == Len(text)
        s == Min(Max(start, 0), len)
        e == Min(Max(end, 0), len)
    IN  SubSeq(text, Min(s, e) + 2, Max(s, e))

\* String.prototype.substring(start, end): both indexes are clamped to
\* [0, length] and swapped when start > end; indexes are 0-based, end exclusive.
substring(text, start, end) ==
    LET len == Len(text)
        s == Min(Max(start, 0), len)
        e == Min(Max(end, 0), len)
    IN  SubSeq(text, Min(s, e) + 1, Max(s, e))

ChunkInit ==
    /\ ct_text \in Texts
    /\ ct_chunkSize \in ChunkSizes
    /\ ct_i = 0
    /\ ct_chunks = <<>>
    /\ ct_pc = "loop"

\* One iteration of the for loop: the condition i < text.length holds.
\* A run with chunkSize <= 0 never leaves the loop; it is followed for
\* MaxLoopObserved iterations.
ChunkLoopBody ==
    /\ ct_pc = "loop"
    /\ ct_i < Len(ct_text)
    /\ ct_chunkSize > 0 \/ Len(ct_chunks) < MaxLoopObserved
    /\ ct_chunks' = Append(ct_chunks, substring(ct_text, ct_i, ct_i + ct_chunkSize))
    /\ ct_i' = ct_i + ct_chunkSize
    /\ UNCHANGED <<ct_text, ct_chunkSize, ct_pc>>

\* The loop condition fails: return chunks.
ChunkReturn ==
    /\ ct_pc = "loop"
    /\ ~(ct_i < Len(ct_text))
    /\ ct_pc' = "returned"
    /\ UNCHANGED <<ct_text, ct_chunkSize, ct_i, ct_chunks>>

ChunkNext ==
    \/ ChunkLoopBody /\ UNCHANGED <<chatVars, genVars, cosVars, upVars, sgVars, remoteVars>>
    \/ ChunkReturn /\ UNCHANGED <<chatVars, genVars, cosVars, upVars, sgVars, remoteVars>>

(***************************************************************************)
(* The in-process store, cosineSimilarity and handleChat (services.ts)     *)
(***************************************************************************)
MaxStore == 6
TopK == 5

\* Embeddings the store holds and embeddings a query gets.  Components are
\* integers and similarities are compared exactly (no rounding).  The last
\* two query vectors are shorter and longer than the stored ones.
StoredVectors == {<<1, 0>>, <<0, 1>>}
\* A stored embedding of another length, in stores of up to MaxMixedStore entries.
MaxMixedStore == 4
QueryVectors == {<<1, 0>>, <<1, 1>>, <<1>>, <<1, 0, 1>>}
Queries == {<<"q">>}
Separator == <<"\n\n---\n\n">>

\* The store after n one-chunk uploads whose embeddings are emb[1..n].
StoreOf(emb) ==
    [i \in 1..Len(emb) |->
        [id |-> <<"id", i>>, embedding |-> emb[i],
         text |-> <<IF i % 2 = 1 THEN "a" ELSE "b">>, documentId |-> <<"doc", i>>]]
InitialStores ==
    UNION ({{StoreOf(emb) : emb \in [1..n -> StoredVectors]} : n \in 0..MaxStore}
           \cup {{StoreOf(emb) : emb \in [1..n -> StoredVectors \cup {<<1>>}]} : n \in 0..MaxMixedStore})

RECURSIVE SumTo(_, _)
\* f(1) + ... + f(n)
SumTo(f, n) == IF n = 0 THEN 0 ELSE f[n] + SumTo(f, n - 1)

SumSquares(vec) == SumTo([i \in 1..Len(vec) |-> vec[i] * vec[i]], Len(vec))

NaN == [nan |-> TRUE, dot |-> 0, den |-> 1]
\* The number dot / sqrt(den), den > 0.
Num(dot, den) == [nan |-> FALSE, dot |-> dot, den |-> den]

\* sign(x) * x^2: orders dot / sqrt(den) without taking the root.
SignedSquare(x) == IF x < 0 THEN 0 - x * x ELSE x * x
\* x < y for two numbers that are not NaN.
NumLess(x, y) == SignedSquare(x.dot) * y.den < SignedSquare(y.dot) * x.den

\* cosineSimilarity mutated: no early return, so a zero magnitude gives 0 / 0.
cosineSimilarityDivides(vecA, vecB) ==
    IF SumSquares(vecA) = 0 \/ SumSquares(vecB) = 0 \/ Len(vecA) > Len(vecB) THEN NaN
    ELSE Num(SumTo([i \in 1..Len(vecA) |-> vecA[i] * vecB[i]], Len(vecA)),
             SumSquares(vecA) * SumSquares(vecB))

\* vecA.reduce((sum, a, i) => sum + a * vecB[i], 0): vecB[i] is undefined past
\* the end of vecB, and a * undefined is NaN, which the sum keeps.
cosineSimilarity(vecA, vecB) ==
    LET dotIsNaN == Len(vecA) > Len(vecB)
        dotProduct == SumTo([i \in 1..Len(vecA) |->
                               IF i <= Len(vecB) THEN vecA[i] * vecB[i] ELSE 0], Len(vecA))
        sqA == SumSquares(vecA)
        sqB == SumSquares(vecB)
    IN  IF sqA = 0 \/ sqB = 0 THEN Num(0, 1)
        ELSE IF dotIsNaN THEN NaN
        ELSE Num(dotProduct, sqA * sqB)

\* vectorStore.map(vector => ({...vector, similarity: ...}))
Scored(store, queryEmbedding) ==
    [i \in 1..Len(store) |->
        [id |-> store[i].id, embedding |-> store[i].embedding, text |-> store[i].text,
         documentId |-> store[i].documentId,
         similarity |-> cosineSimilarity(queryEmbedding, store[i].embedding)]]

\* The comparator (a, b) => b.similarity - a.similarity as the sort sees it:
\* its sign, with NaN taken as +0 (SortCompare).
Compare(a, b) ==
    IF a.similarity.nan \/ b.similarity.nan THEN 0
    ELSE IF NumLess(b.similarity, a.similarity) THEN 0 - 1
    ELSE IF NumLess(a.similarity, b.similarity) THEN 1
    ELSE 0

\* Compare is negative: a sorts before b.
Before(a, b) == Compare(a, b) < 0

\* Compare orders the elements of s consistently: comparing equal is
\* transitive.  (It fails when a NaN similarity compares equal to two
\* similarities that differ.)
Consistent(s) ==
    \A i, j, k \in 1..Len(s) :
        Compare(s[i], s[j]) = 0 /\ Compare(s[j], s[k]) = 0 => Compare(s[i], s[k]) = 0

RECURSIVE InsertBeforeTies(_, _)
\* An insertion mutated: x goes in front of the elements it compares equal to.
InsertBeforeTies(x, s) ==
    IF s = <<>> THEN <<x>>
    ELSE IF Compare(x, s[Len(s)]) <= 0
         THEN Append(InsertBeforeTies(x, SubSeq(s, 1, Len(s) - 1)), s[Len(s)])
    ELSE Append(s, x)

RECURSIVE InsertStable(_, _)
\* x put into the sorted sequence s behind every element it does not sort before.
InsertStable(x, s) ==
    IF s = <<>> THEN <<x>>
    ELSE IF Before(x, s[Len(s)]) THEN Append(InsertStable(x, SubSeq(s, 1, Len(s) - 1)), s[Len(s)])
    ELSE Append(s, x)

RECURSIVE StableSort(_)
StableSort(s) ==
    IF s = <<>> THEN <<>>
    ELSE InsertStable(s[Len(s)], StableSort(SubSeq(s, 1, Len(s) - 1)))

\* Array.prototype.sort with the comparator above.  The sort is stable, so
\* a consistent comparator fixes the result.  With an inconsistent one the
\* order is implementation-defined: any permutation.
SortOutcomes(s) ==
    IF Consistent(s) THEN {StableSort(s)}
    ELSE {[i \in 1..Len(s) |-> s[p[i]]] : p \in Permutations(1..Len(s))}

\* A slice mutated: one element too many.
sliceOneMore(s, start, end) == SubSeq(s, start + 1, Min(end + 1, Len(s)))

\* Array.prototype.slice(start, end) for 0 <= start <= end.
slice(s, start, end) == SubSeq(s, start + 1, Min(end, Len(s)))

RECURSIVE join(_, _)
\* Array.prototype.join(sep)
join(ss, sep) ==
    IF ss = <<>> THEN <<>>
    ELSE IF Len(ss) = 1 THEN ss[1]
    ELSE ss[1] \o sep \o join(Tail(ss), sep)

\* The template literal of the prompt.
Prompt(context, query) == <<"CONTEXT:">> \o context \o <<"QUESTION:">> \o query

\* chatModel.text of a generation response: a text, or undefined.
ResponseTexts == {"answer", Undefined}

ChatIdle ==
    /\ c_pc = "idle"
    /\ c_query = <<>>
    /\ c_queryEmbedding = <<>>
    /\ c_similarDocs = <<>>
    /\ c_prompt = <<>>
    /\ c_answer = Undefined
    /\ c_log = <<>>
    /\ c_lenAtCall = 0

\* handleChat is called: the embedding of the query is requested.
ChatStart(query) ==
    /\ c_pc = "idle"
    /\ c_pc' = "awaitEmbed"
    /\ c_query' = query
    /\ c_log' = Append(c_log, [call |-> "embedContent", taskType |-> "RETRIEVAL_QUERY",
                               contents |-> query])
    /\ c_lenAtCall' = Len(vectorStore)
    /\ UNCHANGED <<vectorStore, c_queryEmbedding, c_similarDocs, c_prompt, c_answer>>

\* handleChat mutated: with an empty store it returns a fixed text at once.
ChatEmbedReturnsShortCircuit(embedding) ==
    /\ c_pc = "awaitEmbed"
    /\ c_queryEmbedding' = embedding
    /\ \E sorted \in SortOutcomes(Scored(vectorStore, embedding)) :
          c_similarDocs' = slice(sorted, 0, TopK)
    /\ c_prompt' = Prompt(join([i \in 1..Len(c_similarDocs') |-> c_similarDocs'[i].text],
                               Separator), c_query)
    /\ IF vectorStore = <<>>
       THEN c_log' = c_log /\ c_pc' = "returned" /\ c_answer' = "answer"
       ELSE /\ c_log' = Append(c_log, [call |-> "generateContent", taskType |-> "",
                                       contents |-> c_prompt'])
            /\ c_pc' = "awaitGenerate"
            /\ c_answer' = c_answer
    /\ UNCHANGED <<vectorStore, c_query, c_lenAtCall>>

\* handleChat mutated: it ranks the entries the store held when it was called.
ChatEmbedReturnsRanksCopyAtCall(embedding) ==
    /\ c_pc = "awaitEmbed"
    /\ c_queryEmbedding' = embedding
    /\ \E sorted \in SortOutcomes(Scored(SubSeq(vectorStore, 1, c_lenAtCall), embedding)) :
          c_similarDocs' = slice(sorted, 0, TopK)
    /\ c_prompt' = Prompt(join([i \in 1..Len(c_similarDocs') |-> c_similarDocs'[i].text],
                               Separator), c_query)
    /\ c_log' = Append(c_log, [call |-> "generateContent", taskType |-> "",
                               contents |-> c_prompt'])
    /\ c_pc' = "awaitGenerate"
    /\ UNCHANGED <<vectorStore, c_query, c_answer, c_lenAtCall>>

\* The embedding arrives: rank the store, build the prompt, request the answer.
ChatEmbedReturns(embedding) ==
    /\ c_pc = "awaitEmbed"
    /\ c_queryEmbedding' = embedding
    /\ \E sorted \in SortOutcomes(Scored(vectorStore, embedding)) :
          c_similarDocs' = slice(sorted, 0, TopK)
    /\ c_prompt' = Prompt(join([i \in 1..Len(c_similarDocs') |-> c_similarDocs'[i].text],
                               Separator), c_query)
    /\ c_log' = Append(c_log, [call |-> "generateContent", taskType |-> "",
                               contents |-> c_prompt'])
    /\ c_pc' = "awaitGenerate"
    /\ UNCHANGED <<vectorStore, c_query, c_answer, c_lenAtCall>>

\* The answer arrives: return chatModel.text.
ChatGenerateReturns(text) ==
    /\ c_pc = "awaitGenerate"
    /\ c_answer' = text
    /\ c_pc' = "returned"
    /\ UNCHANGED <<vectorStore, c_query, c_queryEmbedding, c_similarDocs, c_prompt, c_log,
                   c_lenAtCall>>

\* An awaited call fails (or its response lacks embeddings[0]): nothing
\* catches it and the promise of handleChat rejects.
ChatCallRejects ==
    /\ c_pc \in {"awaitEmbed", "awaitGenerate"}
    /\ c_pc' = "rejected"
    /\ UNCHANGED <<vectorStore, c_query, c_queryEmbedding, c_similarDocs, c_prompt,
                   c_answer, c_log, c_lenAtCall>>

ChunkIdle ==
    /\ ct_text = <<>>
    /\ ct_chunkSize = 1
    /\ ct_i = 0
    /\ ct_chunks = <<>>
    /\ ct_pc = "idle"

ChatNext ==
    \/ \E query \in Queries : ChatStart(query) /\ UNCHANGED <<chunkVars, genVars, cosVars, upVars, sgVars, remoteVars>>
    \/ \E embedding \in QueryVectors :
          ChatEmbedReturns(embedding) /\ UNCHANGED <<chunkVars, genVars, cosVars, upVars, sgVars, remoteVars>>
    \/ \E text \in ResponseTexts : ChatGenerateReturns(text) /\ UNCHANGED <<chunkVars, genVars, cosVars, upVars, sgVars, remoteVars>>
    \/ ChatCallRejects /\ UNCHANGED <<chunkVars, genVars, cosVars, upVars, sgVars, remoteVars>>

(***************************************************************************)
(* handleGenerate, the tool dispatcher (part_000), and getToken (part_001) *)
(***************************************************************************)
MaxCalls == 2

WeatherTool == "get_current_temperature"
ZoomTool == "create_zoom_meeting"
\* The name the retrieval branch of handleGenerate tests for.
RagHandled == "rag_university_of_baguio_student_handbook"
\* The name ragFunctionDeclaration declares to the model.
RagDeclared == "rag_intro_llm_prompt_engineering"

\* functionDeclarations of the initial call.
DeclaredTools == {WeatherTool, ZoomTool, RagDeclared}
\* The names a response may carry.
CallNames == DeclaredTools \cup {RagHandled}
CallLists == UNION {[1..n -> [name : CallNames]] : n \in 0..MaxCalls}

\* A generation response.  functionCalls absent and functionCalls empty are
\* both <<>>: the code treats them alike.
Responses == [text : ResponseTexts, functionCalls : CallLists]
\* A follow-up response: it may again ask for a tool.
FollowupResponses == [text : ResponseTexts, functionCalls : {<<>>, <<[name |-> WeatherTool]>>}]

TextTurn(role, text) == [role |-> role, parts |-> <<[text |-> text]>>]
Histories == {<<>>, <<TextTurn("user", <<"h">>), TextTurn("model", <<"i">>)>>}

\* JSON bodies of the tool services: opaque, a success body or an error body.
Payloads == {"ok_json", "error_json"}
\* The token request: a body with access_token, a body without, or a failure
\* of fetch or of response.json().
TokenFetchOutcomes == {"token_json", "error_json", "rejects"}
\* matches of a Pinecone query response (absent matches and no matches are
\* both <<>>); a match may lack metadata.text or have it empty.
Match(defined, text) == [defined |-> defined, text |-> text]
MatchLists == {<<>>, <<Match(TRUE, <<"m">>)>>,
               <<Match(TRUE, <<"m">>), Match(FALSE, <<>>), Match(TRUE, <<>>), Match(TRUE, <<"n">>)>>}

NoCall == [text |-> Undefined, functionCalls |-> <<>>]
NoToken == [access_token |-> Undefined, expires_in |-> Undefined, error |-> Undefined]
NoChat == [similarDocs |-> <<>>, prompt |-> <<>>]

\* An outbound call: who issued it, which call, for which invocation of the
\* round (0: none), with which contents, tools and bearer token.
Call(by, call, inv, contents, tools, bearer) ==
    [by |-> by, call |-> call, inv |-> inv, contents |-> contents, tools |-> tools,
     bearer |-> bearer]

GenIdle ==
    /\ g_pc = "idle"
    /\ g_history = <<>>
    /\ g_query = <<>>
    /\ g_chatModel = NoCall
    /\ g_functionRes = NoCall
    /\ g_idx = 0
    /\ g_results = <<>>
    /\ g_token = NoToken
    /\ g_chat = NoChat
    /\ g_answer = Undefined
    /\ g_rejection = ""
    /\ g_log = <<>>

\* contents of the initial call: [...history, {parts: [{text: query}], role: "user"}]
InitialContents(history, query) == history \o <<TextTurn("user", query)>>

\* A wrong follow-up conversation: one turn per result instead of one turn
\* holding them all.
FollowupContentsOneTurnPerResult(history, query, results) ==
    InitialContents(history, query) \o
        [i \in 1..Len(results) |-> [role |-> Undefined, parts |-> <<results[i]>>]]

\* contents of the follow-up call: the same, then {parts: results}
FollowupContents(history, query, results) ==
    InitialContents(history, query) \o <<[role |-> Undefined, parts |-> results]>>

\* results.push({functionResponse: {name, response: {result: res}}})
FunctionResponse(name, res) ==
    [functionResponse |-> [name |-> name, response |-> [result |-> res]]]

\* getToken: what it returns for each outcome of its fetch.  A failure of
\* fetch is caught by .catch(console.log), request is then undefined and the
\* destructuring throws inside the try: the catch block returns the error.
getToken(outcome) ==
    IF outcome = "token_json"
    THEN [access_token |-> "tok", expires_in |-> "3600", error |-> Null]
    ELSE IF outcome = "error_json"
    THEN [access_token |-> Undefined, expires_in |-> Undefined, error |-> Null]
    ELSE [access_token |-> Null, expires_in |-> Null, error |-> "TypeError"]

\* handleGenerate is called: the initial generation call is issued.
GenerateStart(history, query) ==
    /\ g_pc = "idle"
    /\ g_history' = history
    /\ g_query' = query
    /\ g_log' = Append(g_log, Call("handleGenerate", "generateContent", 0,
                                   InitialContents(history, query), DeclaredTools, ""))
    /\ g_pc' = "awaitInitial"
    /\ UNCHANGED <<g_chatModel, g_functionRes, g_idx, g_results, g_token, g_chat, g_answer,
                   g_rejection>>

\* InitialReturns mutated: the function calls are not looked at.
InitialReturnsIgnoresCalls(response) ==
    /\ g_pc = "awaitInitial"
    /\ g_chatModel' = response
    /\ g_answer' = response.text
    /\ g_pc' = "returned"
    /\ UNCHANGED <<g_history, g_query, g_functionRes, g_idx, g_results, g_token, g_chat,
                   g_rejection, g_log>>

\* The initial response arrives: enter the tool round, or return its text.
InitialReturns(response) ==
    /\ g_pc = "awaitInitial"
    /\ g_chatModel' = response
    /\ IF Len(response.functionCalls) > 0
       THEN /\ g_results' = <<>>
            /\ g_idx' = 1
            /\ g_pc' = "loop"
            /\ UNCHANGED g_answer
       ELSE /\ g_answer' = response.text
            /\ g_pc' = "returned"
            /\ UNCHANGED <<g_results, g_idx>>
    /\ UNCHANGED <<g_history, g_query, g_functionRes, g_token, g_chat, g_rejection, g_log>>

\* The function call the loop is at.
functionCall == g_chatModel.functionCalls[g_idx]
InLoop == g_pc = "loop" /\ g_idx <= Len(g_chatModel.functionCalls)

\* Branch get_current_temperature: the weather request is issued.
DispatchWeather ==
    /\ InLoop
    /\ functionCall.name = WeatherTool
    /\ g_log' = Append(g_log, Call("handleGenerate", "fetch weather", g_idx, <<>>, {}, ""))
    /\ g_pc' = "awaitWeather"
    /\ UNCHANGED <<g_history, g_query, g_chatModel, g_functionRes, g_idx, g_results, g_token,
                   g_chat, g_answer, g_rejection>>

\* Branch create_zoom_meeting: getToken is called and issues the token request.
DispatchZoom ==
    /\ InLoop
    /\ functionCall.name = ZoomTool
    /\ g_log' = Append(g_log, Call("getToken", "fetch token", g_idx, <<>>, {}, ""))
    /\ g_pc' = "awaitToken"
    /\ UNCHANGED <<g_history, g_query, g_chatModel, g_functionRes, g_idx, g_results, g_token,
                   g_chat, g_answer, g_rejection>>

\* Branch rag_university_of_baguio_student_handbook: handleChat(query, history)
\* is called and requests the embedding of the query.
DispatchRag ==
    /\ InLoop
    /\ functionCall.name = RagHandled
    /\ g_log' = Append(g_log, Call("handleChat", "embedContent", g_idx, g_query, {}, ""))
    /\ g_chat' = NoChat
    /\ g_pc' = "awaitChatEmbed"
    /\ UNCHANGED <<g_history, g_query, g_chatModel, g_functionRes, g_idx, g_results, g_token,
                   g_answer, g_rejection>>

\* No branch tests for the name: the iteration ends without a result.
SkipUnhandled ==
    /\ InLoop
    /\ functionCall.name \notin {WeatherTool, ZoomTool, RagHandled}
    /\ g_idx' = g_idx + 1
    /\ UNCHANGED <<g_pc, g_history, g_query, g_chatModel, g_functionRes, g_results, g_token,
                   g_chat, g_answer, g_rejection, g_log>>

\* The weather body arrives: push it as the result.
WeatherReturns(res) ==
    /\ g_pc = "awaitWeather"
    /\ g_results' = Append(g_results, FunctionResponse(functionCall.name, res))
    /\ g_idx' = g_idx + 1
    /\ g_pc' = "loop"
    /\ UNCHANGED <<g_history, g_query, g_chatModel, g_functionRes, g_token, g_chat, g_answer,
                   g_rejection, g_log>>

\* getToken returns: the meeting request is issued with token.access_token.
TokenSettles(outcome) ==
    /\ g_pc = "awaitToken"
    /\ g_token' = getToken(outcome)
    /\ g_log' = Append(g_log, Call("handleGenerate", "fetch meeting", g_idx, <<>>, {},
                                   g_token'.access_token))
    /\ g_pc' = "awaitMeeting"
    /\ UNCHANGED <<g_history, g_query, g_chatModel, g_functionRes, g_idx, g_results, g_chat,
                   g_answer, g_rejection>>

\* The meeting body arrives: push it as the result.
MeetingReturns(res) ==
    /\ g_pc = "awaitMeeting"
    /\ g_results' = Append(g_results, FunctionResponse(functionCall.name, res))
    /\ g_idx' = g_idx + 1
    /\ g_pc' = "loop"
    /\ UNCHANGED <<g_history, g_query, g_chatModel, g_functionRes, g_token, g_chat, g_answer,
                   g_rejection, g_log>>

\* handleChat: the query embedding arrives; the Pinecone query is issued.
RagEmbedReturns ==
    /\ g_pc = "awaitChatEmbed"
    /\ g_log' = Append(g_log, Call("handleChat", "index.query", g_idx, <<>>, {}, ""))
    /\ g_pc' = "awaitChatQuery"
    /\ UNCHANGED <<g_history, g_query, g_chatModel, g_functionRes, g_idx, g_results, g_token,
                   g_chat, g_answer, g_rejection>>

\* matches?.map(match => match.metadata?.text).filter(Boolean) || []
MatchTexts(matches) ==
    LET keep == {i \in 1..Len(matches) : matches[i].defined /\ matches[i].text # <<>>}
        RECURSIVE Pick(_)
        Pick(i) == IF i > Len(matches) THEN <<>>
                   ELSE (IF i \in keep THEN <<matches[i].text>> ELSE <<>>) \o Pick(i + 1)
    IN  Pick(1)

\* handleChat: the matches arrive; build the prompt and request the answer.
RagQueryReturns(matches) ==
    /\ g_pc = "awaitChatQuery"
    /\ g_chat' = [similarDocs |-> MatchTexts(matches),
                  prompt |-> Prompt(join(MatchTexts(matches), Separator), g_query)]
    /\ g_log' = Append(g_log, Call("handleChat", "generateContent", g_idx, g_chat'.prompt, {}, ""))
    /\ g_pc' = "awaitChatGenerate"
    /\ UNCHANGED <<g_history, g_query, g_chatModel, g_functionRes, g_idx, g_results, g_token,
                   g_answer, g_rejection>>

\* handleChat returns chatModel.text: push it as the result.
RagGenerateReturns(text) ==
    /\ g_pc = "awaitChatGenerate"
    /\ g_results' = Append(g_results, FunctionResponse(functionCall.name, text))
    /\ g_idx' = g_idx + 1
    /\ g_pc' = "loop"
    /\ UNCHANGED <<g_history, g_query, g_chatModel, g_functionRes, g_token, g_chat, g_answer,
                   g_rejection, g_log>>

\* The loop is over: the follow-up generation call is issued.
IssueFollowup ==
    /\ g_pc = "loop"
    /\ g_idx > Len(g_chatModel.functionCalls)
    /\ g_log' = Append(g_log, Call("handleGenerate", "generateContent", 0,
                                   FollowupContents(g_history, g_query, g_results), {}, ""))
    /\ g_pc' = "awaitFollowup"
    /\ UNCHANGED <<g_history, g_query, g_chatModel, g_functionRes, g_idx, g_results, g_token,
                   g_chat, g_answer, g_rejection>>

\* The follow-up response arrives: return functionRes.text.
FollowupReturns(response) ==
    /\ g_pc = "awaitFollowup"
    /\ g_functionRes' = response
    /\ g_answer' = response.text
    /\ g_pc' = "returned"
    /\ UNCHANGED <<g_history, g_query, g_chatModel, g_idx, g_results, g_token, g_chat,
                   g_rejection, g_log>>

\* The awaits of handleGenerate (and of the handleChat it calls) that no
\* try/catch covers.  The token request is not among them: getToken catches.
UncaughtAwaits == {"awaitInitial", "awaitWeather", "awaitMeeting", "awaitChatEmbed",
                   "awaitChatQuery", "awaitChatGenerate", "awaitFollowup"}

\* An awaited call fails: the exception leaves handleGenerate, whose promise
\* rejects with it.
CallRejects ==
    /\ g_pc \in UncaughtAwaits
    /\ g_rejection' = g_pc
    /\ g_pc' = "rejected"
    /\ UNCHANGED <<g_history, g_query, g_chatModel, g_functionRes, g_idx, g_results, g_token,
                   g_chat, g_answer, g_log>>

GenNext ==
    \/ \E history \in Histories, query \in Queries :
          GenerateStart(history, query) /\ UNCHANGED <<chunkVars, chatVars, cosVars, upVars, sgVars, remoteVars>>
    \/ \E response \in Responses : InitialReturns(response) /\ UNCHANGED <<chunkVars, chatVars, cosVars, upVars, sgVars, remoteVars>>
    \/ DispatchWeather /\ UNCHANGED <<chunkVars, chatVars, cosVars, upVars, sgVars, remoteVars>>
    \/ DispatchZoom /\ UNCHANGED <<chunkVars, chatVars, cosVars, upVars, sgVars, remoteVars>>
    \/ DispatchRag /\ UNCHANGED <<chunkVars, chatVars, cosVars, upVars, sgVars, remoteVars>>
    \/ SkipUnhandled /\ UNCHANGED <<chunkVars, chatVars, cosVars, upVars, sgVars, remoteVars>>
    \/ \E res \in Payloads : WeatherReturns(res) /\ UNCHANGED <<chunkVars, chatVars, cosVars, upVars, sgVars, remoteVars>>
    \/ \E outcome \in TokenFetchOutcomes : TokenSettles(outcome) /\ UNCHANGED <<chunkVars, chatVars, cosVars, upVars, sgVars, remoteVars>>
    \/ \E res \in Payloads : MeetingReturns(res) /\ UNCHANGED <<chunkVars, chatVars, cosVars, upVars, sgVars, remoteVars>>
    \/ RagEmbedReturns /\ UNCHANGED <<chunkVars, chatVars, cosVars, upVars, sgVars, remoteVars>>
    \/ \E matches \in MatchLists : RagQueryReturns(matches) /\ UNCHANGED <<chunkVars, chatVars, cosVars, upVars, sgVars, remoteVars>>
    \/ \E text \in ResponseTexts : RagGenerateReturns(text) /\ UNCHANGED <<chunkVars, chatVars, cosVars, upVars, sgVars, remoteVars>>
    \/ IssueFollowup /\ UNCHANGED <<chunkVars, chatVars, cosVars, upVars, sgVars, remoteVars>>
    \/ \E response \in FollowupResponses : FollowupReturns(response) /\ UNCHANGED <<chunkVars, chatVars, cosVars, upVars, sgVars, remoteVars>>
    \/ CallRejects /\ UNCHANGED <<chunkVars, chatVars, cosVars, upVars, sgVars, remoteVars>>

(***************************************************************************)
(* cosineSimilarity called on its own (services.ts)                        *)
(***************************************************************************)
MaxDim == 2
\* Components of the vectors: the zero vectors are among them.
Components == {0 - 1, 0, 1}
Vectors(n) == [1..n -> Components]

\* Nothing returned yet.
NoResult == [nan |-> TRUE, dot |-> 0, den |-> 0]

CosIdle ==
    /\ cs_vecA = <<>>
    /\ cs_vecB = <<>>
    /\ cs_divided = FALSE
    /\ cs_result = NoResult
    /\ cs_pc = "idle"

\* cosineSimilarity is called with two vectors of equal length.
CosInit ==
    /\ \E n \in 0..MaxDim : cs_vecA \in Vectors(n) /\ cs_vecB \in Vectors(n)
    /\ cs_divided = FALSE
    /\ cs_result = NoResult
    /\ cs_pc = "called"

\* The body: the early return of 0, or the division.
CosReturn ==
    /\ cs_pc = "called"
    /\ cs_divided' = ~(SumSquares(cs_vecA) = 0 \/ SumSquares(cs_vecB) = 0)
    /\ cs_result' = cosineSimilarity(cs_vecA, cs_vecB)
    /\ cs_pc' = "returned"
    /\ UNCHANGED <<cs_vecA, cs_vecB>>

CosNext == CosReturn /\ UNCHANGED <<chunkVars, chatVars, genVars, upVars, sgVars, remoteVars>>

(***************************************************************************)
(* handleFileUpload and handleGenerate of services.ts, next to handleChat  *)
(***************************************************************************)
\* The default of chunkText's parameter chunkSize.
DefaultChunkSize == 1000

\* chunkText mutated: the loop stops before a final chunk shorter than chunkSize.
chunkTextWholeChunks(text, chunkSize) ==
    [k \in 1..(Len(text) \div chunkSize) |->
        substring(text, (k - 1) * chunkSize, k * chunkSize)]

\* chunkText(text, chunkSize) for chunkSize > 0, as a function of its
\* arguments: iteration k of the loop runs with i = (k - 1) * chunkSize, as
\* long as that is less than text.length, and pushes text.substring(i, i + chunkSize).
chunkText(text, chunkSize) ==
    [k \in 1..((Len(text) + chunkSize - 1) \div chunkSize) |->
        substring(text, (k - 1) * chunkSize, k * chunkSize)]

\* The loop of chunkText, stepped through (ChunkSpec), returns what chunkText gives.
ChunkTextIsTheLoop ==
    ct_pc = "returned" /\ ct_chunkSize > 0 => ct_chunks = chunkText(ct_text, ct_chunkSize)

\* Texts pdfParse extracts: the character at a position depends on the
\* position, so that no two chunks of a text are equal.
Alphabet == <<"a", "b", "c", "d", "e", "f", "g">>
TextOfLength(n) == [p \in 1..n |-> Alphabet[(p % 7) + 1]]
ParsedTexts ==
    {TextOfLength(n) : n \in {0, 1, DefaultChunkSize, DefaultChunkSize + 1,
                              2 * DefaultChunkSize + 400}}
\* Fewer texts, for the runs in which chats and uploads interleave.
FewParsedTexts == {TextOfLength(n) : n \in {0, DefaultChunkSize + 1}}

\* The concurrent upload requests.
Uploaders == {"u1", "u2"}

\* uuidv4(): the n-th id generated; no id is generated twice.
Uuid(n) == <<"uuid", n>>

\* No value: the promise has not resolved.
NoDocumentId == <<>>

UploadIdle ==
    /\ u_pc = [p \in Uploaders |-> "idle"]
    /\ u_documentId = [p \in Uploaders |-> NoDocumentId]
    /\ u_text = [p \in Uploaders |-> <<>>]
    /\ u_chunks = [p \in Uploaders |-> <<>>]
    /\ u_idx = [p \in Uploaders |-> 0]
    /\ u_calls = [p \in Uploaders |-> <<>>]
    /\ u_result = [p \in Uploaders |-> NoDocumentId]
    /\ uuids = 0

\* The request for the embedding of chunks[i].
EmbedCall(i) == [call |-> "embedContent", taskType |-> "RETRIEVAL_DOCUMENT", chunk |-> i]

\* handleFileUpload is called: documentId is generated, pdfParse is awaited.
UploadStart(p) ==
    /\ u_pc[p] = "idle"
    /\ u_documentId' = [u_documentId EXCEPT ![p] = Uuid(uuids + 1)]
    /\ uuids' = uuids + 1
    /\ u_pc' = [u_pc EXCEPT ![p] = "awaitParse"]
    /\ UNCHANGED <<vectorStore, u_text, u_chunks, u_idx, u_calls, u_result>>

\* The loop mutated: the embeddings of all chunks are requested at once.
ParseReturnsRequestsAll(p, text) ==
    /\ u_pc[p] = "awaitParse"
    /\ LET chunks == chunkText(text, DefaultChunkSize)
       IN  /\ u_text' = [u_text EXCEPT ![p] = text]
           /\ u_chunks' = [u_chunks EXCEPT ![p] = chunks]
           /\ IF chunks = <<>>
              THEN /\ u_pc' = [u_pc EXCEPT ![p] = "returned"]
                   /\ u_result' = [u_result EXCEPT ![p] = u_documentId[p]]
                   /\ UNCHANGED <<u_idx, u_calls>>
              ELSE /\ u_pc' = [u_pc EXCEPT ![p] = "awaitEmbed"]
                   /\ u_idx' = [u_idx EXCEPT ![p] = 1]
                   /\ u_calls' = [u_calls EXCEPT ![p] = [k \in 1..Len(chunks) |-> EmbedCall(k)]]
                   /\ UNCHANGED u_result
    /\ UNCHANGED <<vectorStore, u_documentId, uuids>>

\* pdfParse resolves: the text is chunked; the loop requests the embedding
\* of the first chunk, or with no chunk the documentId is returned.
ParseReturns(p, text) ==
    /\ u_pc[p] = "awaitParse"
    /\ LET chunks == chunkText(text, DefaultChunkSize)
       IN  /\ u_text' = [u_text EXCEPT ![p] = text]
           /\ u_chunks' = [u_chunks EXCEPT ![p] = chunks]
           /\ IF chunks = <<>>
              THEN /\ u_pc' = [u_pc EXCEPT ![p] = "returned"]
                   /\ u_result' = [u_result EXCEPT ![p] = u_documentId[p]]
                   /\ UNCHANGED <<u_idx, u_calls>>
              ELSE /\ u_pc' = [u_pc EXCEPT ![p] = "awaitEmbed"]
                   /\ u_idx' = [u_idx EXCEPT ![p] = 1]
                   /\ u_calls' = [u_calls EXCEPT ![p] = Append(@, EmbedCall(1))]
                   /\ UNCHANGED u_result
    /\ UNCHANGED <<vectorStore, u_documentId, uuids>>

\* The push mutated: the vector is put in front of the store (unshift).
UploadEmbedReturnsUnshifts(p, embedding) ==
    /\ u_pc[p] = "awaitEmbed"
    /\ vectorStore' = <<[id |-> Uuid(uuids + 1), embedding |-> embedding,
                         text |-> u_chunks[p][u_idx[p]], documentId |-> u_documentId[p]]>>
                      \o vectorStore
    /\ uuids' = uuids + 1
    /\ IF u_idx[p] < Len(u_chunks[p])
       THEN /\ u_idx' = [u_idx EXCEPT ![p] = @ + 1]
            /\ u_calls' = [u_calls EXCEPT ![p] = Append(@, EmbedCall(u_idx[p] + 1))]
            /\ UNCHANGED <<u_pc, u_result>>
       ELSE /\ u_pc' = [u_pc EXCEPT ![p] = "returned"]
            /\ u_result' = [u_result EXCEPT ![p] = u_documentId[p]]
            /\ UNCHANGED <<u_idx, u_calls>>
    /\ UNCHANGED <<u_documentId, u_text, u_chunks>>

\* The push mutated: the vector gets the documentId as its id.
UploadEmbedReturnsReusesId(p, embedding) ==
    /\ u_pc[p] = "awaitEmbed"
    /\ vectorStore' = Append(vectorStore,
                             [id |-> u_documentId[p], embedding |-> embedding,
                              text |-> u_chunks[p][u_idx[p]], documentId |-> u_documentId[p]])
    /\ uuids' = uuids + 1
    /\ IF u_idx[p] < Len(u_chunks[p])
       THEN /\ u_idx' = [u_idx EXCEPT ![p] = @ + 1]
            /\ u_calls' = [u_calls EXCEPT ![p] = Append(@, EmbedCall(u_idx[p] + 1))]
            /\ UNCHANGED <<u_pc, u_result>>
       ELSE /\ u_pc' = [u_pc EXCEPT ![p] = "returned"]
            /\ u_result' = [u_result EXCEPT ![p] = u_documentId[p]]
            /\ UNCHANGED <<u_idx, u_calls>>
    /\ UNCHANGED <<u_documentId, u_text, u_chunks>>

\* The embedding of the current chunk arrives: the vector is pushed; the
\* loop requests the next embedding, or after the last chunk the
\* documentId is returned.
UploadEmbedReturns(p, embedding) ==
    /\ u_pc[p] = "awaitEmbed"
    /\ vectorStore' = Append(vectorStore,
                             [id |-> Uuid(uuids + 1), embedding |-> embedding,
                              text |-> u_chunks[p][u_idx[p]], documentId |-> u_documentId[p]])
    /\ uuids' = uuids + 1
    /\ IF u_idx[p] < Len(u_chunks[p])
       THEN /\ u_idx' = [u_idx EXCEPT ![p] = @ + 1]
            /\ u_calls' = [u_calls EXCEPT ![p] = Append(@, EmbedCall(u_idx[p] + 1))]
            /\ UNCHANGED <<u_pc, u_result>>
       ELSE /\ u_pc' = [u_pc EXCEPT ![p] = "returned"]
            /\ u_result' = [u_result EXCEPT ![p] = u_documentId[p]]
            /\ UNCHANGED <<u_idx, u_calls>>
    /\ UNCHANGED <<u_documentId, u_text, u_chunks>>

\* The rejection mutated: the embedding of the next chunk has been requested
\* by the time the failure is seen.
UploadCallRejectsAfterNextCall(p) ==
    /\ u_pc[p] \in {"awaitParse", "awaitEmbed"}
    /\ u_pc' = [u_pc EXCEPT ![p] = "rejected"]
    /\ u_calls' = [u_calls EXCEPT ![p] =
                      IF u_pc[p] = "awaitEmbed" /\ u_idx[p] < Len(u_chunks[p])
                      THEN Append(@, EmbedCall(u_idx[p] + 1)) ELSE @]
    /\ UNCHANGED <<vectorStore, u_documentId, u_text, u_chunks, u_idx, u_result, uuids>>

\* pdfParse or embedContent fails (or the response lacks embeddings[0]):
\* nothing catches it and the promise of handleFileUpload rejects.
UploadCallRejects(p) ==
    /\ u_pc[p] \in {"awaitParse", "awaitEmbed"}
    /\ u_pc' = [u_pc EXCEPT ![p] = "rejected"]
    /\ UNCHANGED <<vectorStore, u_documentId, u_text, u_chunks, u_idx, u_calls, u_result, uuids>>

SimpleGenerateIdle ==
    /\ sg_pc = "idle"
    /\ sg_answer = Undefined

\* handleGenerate is called: generateContent is awaited.
SimpleGenerateStart ==
    /\ sg_pc = "idle"
    /\ sg_pc' = "awaitGenerate"
    /\ UNCHANGED sg_answer

\* The response arrives: return chatModel.text.
SimpleGenerateReturns(text) ==
    /\ sg_pc = "awaitGenerate"
    /\ sg_answer' = text
    /\ sg_pc' = "returned"

\* generateContent fails: the promise of handleGenerate rejects.
SimpleGenerateRejects ==
    /\ sg_pc = "awaitGenerate"
    /\ sg_pc' = "rejected"
    /\ UNCHANGED sg_answer

\* Uploads on their own, over all the texts.
UploadNext ==
    \/ \E p \in Uploaders : UploadStart(p) /\ UNCHANGED <<chunkVars, chatOnlyVars, genVars, cosVars, sgVars, remoteVars>>
    \/ \E p \in Uploaders, text \in ParsedTexts :
          ParseReturns(p, text) /\ UNCHANGED <<chunkVars, chatOnlyVars, genVars, cosVars, sgVars, remoteVars>>
    \/ \E p \in Uploaders, embedding \in StoredVectors :
          UploadEmbedReturns(p, embedding) /\ UNCHANGED <<chunkVars, chatOnlyVars, genVars, cosVars, sgVars, remoteVars>>
    \/ \E p \in Uploaders : UploadCallRejects(p) /\ UNCHANGED <<chunkVars, chatOnlyVars, genVars, cosVars, sgVars, remoteVars>>

\* Fewer inputs, for the runs in which the requests interleave.
FewStoredVectors == {<<1, 0>>}
FewQueryVectors == {<<1, 0>>}
FewResponseTexts == {"answer"}

\* The requests served by services.ts, interleaved at their awaits: two
\* uploads, one chat and one generate request.
ServiceNext ==
    \/ \E p \in Uploaders :
          UploadStart(p) /\ UNCHANGED <<chunkVars, chatOnlyVars, genVars, cosVars, sgVars, remoteVars>>
    \/ \E p \in Uploaders, text \in FewParsedTexts :
          ParseReturns(p, text) /\ UNCHANGED <<chunkVars, chatOnlyVars, genVars, cosVars, sgVars, remoteVars>>
    \/ \E p \in Uploaders, embedding \in FewStoredVectors :
          UploadEmbedReturns(p, embedding)
              /\ UNCHANGED <<chunkVars, chatOnlyVars, genVars, cosVars, sgVars, remoteVars>>
    \/ \E p \in Uploaders :
          UploadCallRejects(p) /\ UNCHANGED <<chunkVars, chatOnlyVars, genVars, cosVars, sgVars, remoteVars>>
    \/ \E query \in Queries :
          ChatStart(query) /\ UNCHANGED <<chunkVars, genVars, cosVars, upVars, sgVars, remoteVars>>
    \/ \E embedding \in FewQueryVectors :
          ChatEmbedReturns(embedding) /\ UNCHANGED <<chunkVars, genVars, cosVars, upVars, sgVars, remoteVars>>
    \/ \E text \in FewResponseTexts :
          ChatGenerateReturns(text) /\ UNCHANGED <<chunkVars, genVars, cosVars, upVars, sgVars, remoteVars>>
    \/ ChatCallRejects /\ UNCHANGED <<chunkVars, genVars, cosVars, upVars, sgVars, remoteVars>>
    \/ SimpleGenerateStart /\ UNCHANGED <<chunkVars, chatVars, genVars, cosVars, upVars, remoteVars>>
    \/ \E text \in FewResponseTexts :
          SimpleGenerateReturns(text) /\ UNCHANGED <<chunkVars, chatVars, genVars, cosVars, upVars, remoteVars>>
    \/ SimpleGenerateRejects /\ UNCHANGED <<chunkVars, chatVars, genVars, cosVars, upVars, remoteVars>>

(***************************************************************************)
(* handleFileUpload on the remote index (part_000)                         *)
(***************************************************************************)
\* const batchSize = 100
BatchSize == 100

RECURSIVE Repeat(_, _)
\* The string s, n times.
Repeat(s, n) ==
    IF n = 0 THEN ""
    ELSE IF n = 1 THEN s
    ELSE LET half == Repeat(s, n \div 2)
         IN  IF n % 2 = 0 THEN half \o half ELSE half \o half \o s

\* A text of n characters as a TLA+ string (Len, SubSeq and \o act on it
\* as on a sequence of characters): the long texts of this upload are kept
\* in this form.
StringOfLength(n) == SubSeq(Repeat("abcdefg", (n \div 7) + 1), 1, n)

\* Texts whose chunks fill no batch, one batch exactly, and more than one.
RemoteTexts ==
    {StringOfLength(n) : n \in {0, 1, BatchSize * DefaultChunkSize, BatchSize * DefaultChunkSize + 1,
                              2 * BatchSize * DefaultChunkSize + 400}}
OriginalName == <<"f", ".", "p", "d", "f">>
\* The embedding of a chunk: the upload only passes it on.
RemoteEmbeddings == {<<1, 0>>}
\* Errors a failed call throws.
BackendErrors == {[name |-> "Error", message |-> "request failed"]}
NoError == [name |-> "", message |-> ""]

RemoteUploadIdle ==
    /\ ru_pc = "idle"
    /\ ru_documentId = NoDocumentId
    /\ ru_chunks = <<>>
    /\ ru_idx = 0
    /\ ru_vectorsToUpsert = <<>>
    /\ ru_i = 0
    /\ ru_index = <<>>
    /\ ru_calls = <<>>
    /\ ru_result = NoDocumentId
    /\ ru_rejection = [await |-> "", reason |-> NoError]
    /\ ru_uuids = 0

\* The slice mutated: a batch takes one vector of the next batch along.
BatchOverlaps(v, i) == slice(v, i, i + BatchSize + 1)

\* vectorsToUpsert.slice(i, i + batchSize) of the vectors v.
Batch(v, i) == slice(v, i, i + BatchSize)

\* The call index.upsert(batch), by the ids of the batch.
UpsertCall(batch) ==
    [call |-> "upsert", ids |-> [k \in 1..Len(batch) |-> batch[k].id]]

\* The batch loop at its head with loop variable i over the vectors v: the
\* next upsert is issued, or after the last batch the documentId is returned.
BatchLoop(v, i) ==
    /\ ru_i' = i
    /\ IF i < Len(v)
       THEN /\ ru_calls' = Append(ru_calls, UpsertCall(Batch(v, i)))
            /\ ru_pc' = "awaitUpsert"
            /\ UNCHANGED ru_result
       ELSE /\ ru_pc' = "returned"
            /\ ru_result' = ru_documentId
            /\ UNCHANGED ru_calls

\* handleFileUpload is called: documentId is generated, pdfParse is awaited.
RemoteUploadStart ==
    /\ ru_pc = "idle"
    /\ ru_documentId' = Uuid(ru_uuids + 1)
    /\ ru_uuids' = ru_uuids + 1
    /\ ru_pc' = "awaitParse"
    /\ UNCHANGED <<ru_chunks, ru_idx, ru_vectorsToUpsert, ru_i, ru_index, ru_calls, ru_result,
                   ru_rejection>>

\* pdfParse resolves: the text is chunked, initPinecone is awaited.
RemoteParseReturns(text) ==
    /\ ru_pc = "awaitParse"
    /\ ru_chunks' = chunkText(text, DefaultChunkSize)
    /\ ru_pc' = "awaitInit"
    /\ UNCHANGED <<ru_documentId, ru_idx, ru_vectorsToUpsert, ru_i, ru_index, ru_calls, ru_result,
                   ru_rejection, ru_uuids>>

\* initPinecone resolves: the loop requests the embedding of the first
\* chunk; with no chunk the batch loop runs over no vector.
RemoteInitReturns ==
    /\ ru_pc = "awaitInit"
    /\ IF ru_chunks # <<>>
       THEN /\ ru_idx' = 1
            /\ ru_calls' = Append(ru_calls, EmbedCall(1))
            /\ ru_pc' = "awaitEmbed"
            /\ UNCHANGED <<ru_i, ru_result>>
       ELSE /\ BatchLoop(<<>>, 0)
            /\ UNCHANGED ru_idx
    /\ UNCHANGED <<ru_documentId, ru_chunks, ru_vectorsToUpsert, ru_index, ru_rejection, ru_uuids>>

\* A wrong continuation: the batch loop starts as soon as one batch of
\* vectors is collected, before the remaining chunks are embedded.
RemoteEmbedReturnsUpsertsFullBatch(embedding) ==
    /\ ru_pc = "awaitEmbed"
    /\ ru_vectorsToUpsert' =
          Append(ru_vectorsToUpsert,
                 [id |-> Uuid(ru_uuids + 1), values |-> embedding,
                  metadata |-> [text |-> ru_chunks[ru_idx], documentId |-> ru_documentId,
                                originalname |-> OriginalName]])
    /\ ru_uuids' = ru_uuids + 1
    /\ IF ru_idx < Len(ru_chunks) /\ Len(ru_vectorsToUpsert') < BatchSize
       THEN /\ ru_idx' = ru_idx + 1
            /\ ru_calls' = Append(ru_calls, EmbedCall(ru_idx + 1))
            /\ UNCHANGED <<ru_pc, ru_i, ru_result>>
       ELSE /\ BatchLoop(ru_vectorsToUpsert', 0)
            /\ UNCHANGED ru_idx
    /\ UNCHANGED <<ru_documentId, ru_chunks, ru_index, ru_rejection>>

\* The embedding of the current chunk arrives: the vector is pushed to
\* vectorsToUpsert; the loop requests the next embedding, or after the last
\* chunk the batch loop starts.
RemoteEmbedReturns(embedding) ==
    /\ ru_pc = "awaitEmbed"
    /\ ru_vectorsToUpsert' =
          Append(ru_vectorsToUpsert,
                 [id |-> Uuid(ru_uuids + 1), values |-> embedding,
                  metadata |-> [text |-> ru_chunks[ru_idx], documentId |-> ru_documentId,
                                originalname |-> OriginalName]])
    /\ ru_uuids' = ru_uuids + 1
    /\ IF ru_idx < Len(ru_chunks)
       THEN /\ ru_idx' = ru_idx + 1
            /\ ru_calls' = Append(ru_calls, EmbedCall(ru_idx + 1))
            /\ UNCHANGED <<ru_pc, ru_i, ru_result>>
       ELSE /\ BatchLoop(ru_vectorsToUpsert', 0)
            /\ UNCHANGED ru_idx
    /\ UNCHANGED <<ru_documentId, ru_chunks, ru_index, ru_rejection>>

\* The upsert of the current batch resolves: the index holds the batch; the
\* loop goes on with i + batchSize.
RemoteUpsertReturns ==
    /\ ru_pc = "awaitUpsert"
    /\ ru_index' = ru_index \o Batch(ru_vectorsToUpsert, ru_i)
    /\ BatchLoop(ru_vectorsToUpsert, ru_i + BatchSize)
    /\ UNCHANGED <<ru_documentId, ru_chunks, ru_idx, ru_vectorsToUpsert, ru_rejection, ru_uuids>>

\* An awaited call fails: nothing catches the error and the promise of
\* handleFileUpload rejects with it.
RemoteCallRejects(error) ==
    /\ ru_pc \in {"awaitParse", "awaitInit", "awaitEmbed", "awaitUpsert"}
    /\ ru_rejection' = [await |-> ru_pc, reason |-> error]
    /\ ru_pc' = "rejected"
    /\ UNCHANGED <<ru_documentId, ru_chunks, ru_idx, ru_vectorsToUpsert, ru_i, ru_index, ru_calls,
                   ru_result, ru_uuids>>

RemoteUploadNext ==
    \/ RemoteUploadStart /\ UNCHANGED <<chunkVars, chatVars, genVars, cosVars, upVars, sgVars>>
    \/ \E text \in RemoteTexts :
          RemoteParseReturns(text) /\ UNCHANGED <<chunkVars, chatVars, genVars, cosVars, upVars, sgVars>>
    \/ RemoteInitReturns /\ UNCHANGED <<chunkVars, chatVars, genVars, cosVars, upVars, sgVars>>
    \/ \E embedding \in RemoteEmbeddings :
          RemoteEmbedReturns(embedding) /\ UNCHANGED <<chunkVars, chatVars, genVars, cosVars, upVars, sgVars>>
    \/ RemoteUpsertReturns /\ UNCHANGED <<chunkVars, chatVars, genVars, cosVars, upVars, sgVars>>
    \/ \E error \in BackendErrors :
          RemoteCallRejects(error) /\ UNCHANGED <<chunkVars, chatVars, genVars, cosVars, upVars, sgVars>>

(***************************************************************************)
(* Specifications                                                          *)
(***************************************************************************)
\* chunkText applied to every text and chunkSize of the bounds.
ChunkSpecInit == ChunkInit /\ vectorStore = <<>> /\ ChatIdle /\ GenIdle /\ CosIdle /\ UploadIdle /\ SimpleGenerateIdle /\ RemoteUploadIdle
ChunkSpec == ChunkSpecInit /\ [][ChunkNext]_vars

\* handleChat over every store of the bounds.
ChatSpecInit == ChunkIdle /\ vectorStore \in InitialStores /\ ChatIdle /\ GenIdle /\ CosIdle /\ UploadIdle /\ SimpleGenerateIdle /\ RemoteUploadIdle
ChatSpec == ChatSpecInit /\ [][ChatNext]_vars

\* One handleGenerate request.
GenSpecInit == ChunkIdle /\ vectorStore = <<>> /\ ChatIdle /\ GenIdle /\ CosIdle /\ UploadIdle /\ SimpleGenerateIdle /\ RemoteUploadIdle
GenSpec == GenSpecInit /\ [][GenNext]_vars

\* The same, with every enabled step eventually taken: an awaited call
\* settles (it returns or fails) and the event loop runs the continuation.
GenLiveSpec == GenSpecInit /\ [][GenNext]_vars /\ WF_vars(GenNext)

\* cosineSimilarity applied to every pair of vectors of equal length of the bounds.
CosSpecInit == ChunkIdle /\ vectorStore = <<>> /\ ChatIdle /\ GenIdle /\ CosInit /\ UploadIdle /\ SimpleGenerateIdle /\ RemoteUploadIdle
CosSpec == CosSpecInit /\ [][CosNext]_vars

\* Two concurrent handleFileUpload requests on the empty store.
UploadSpecInit ==
    ChunkIdle /\ vectorStore = <<>> /\ ChatIdle /\ GenIdle /\ CosIdle /\ UploadIdle /\ SimpleGenerateIdle /\ RemoteUploadIdle
UploadSpec == UploadSpecInit /\ [][UploadNext]_vars

\* Uploads, a chat and a generate request interleaved, from the empty store.
ServiceSpec == UploadSpecInit /\ [][ServiceNext]_vars

\* One handleFileUpload request on the empty remote index.
RemoteUploadSpecInit ==
    ChunkIdle /\ vectorStore = <<>> /\ ChatIdle /\ GenIdle /\ CosIdle /\ UploadIdle /\ SimpleGenerateIdle
        /\ RemoteUploadIdle
RemoteUploadSpec == RemoteUploadSpecInit /\ [][RemoteUploadNext]_vars

\* Uploads to a server that runs either version of handleFileUpload: the
\* one of services.ts with the in-process store, or the one of part_000
\* with the remote index.
EitherUploadNext ==
    \/ ru_pc = "idle" /\ UploadNext
    \/ (\A p \in Uploaders : u_pc[p] = "idle") /\ RemoteUploadNext
EitherUploadSpec == RemoteUploadSpecInit /\ [][EitherUploadNext]_vars

(***************************************************************************)
(* Properties of the tool dispatcher (GenSpec, GenLiveSpec)                *)
(***************************************************************************)
functionCalls == g_chatModel.functionCalls
HandledTools == {WeatherTool, ZoomTool, RagHandled}
\* The awaits of the tool round: calls made to execute an invocation.
ToolAwaits == {"awaitWeather", "awaitMeeting", "awaitChatEmbed", "awaitChatQuery",
               "awaitChatGenerate"}
Finished == g_pc \in {"returned", "rejected"}

\* Generation calls handleGenerate itself issued; the first is the initial
\* call, the others are follow-up calls.
DispatcherCalls ==
    {i \in 1..Len(g_log) : g_log[i].by = "handleGenerate" /\ g_log[i].call = "generateContent"}
FollowupCalls == DispatcherCalls \ {1}
\* Calls made to execute an invocation of the round.
ToolCalls == {i \in 1..Len(g_log) : g_log[i].inv > 0}

\* The state of the dispatcher's state machine the request is in; REJECTED
\* is the abnormal end, the promise rejected by a failed call.
DispatcherState ==
    CASE g_pc = "idle" -> "IDLE"
      [] g_pc = "awaitInitial" -> "AWAITING_MODEL"
      [] g_pc \in ToolAwaits \cup {"loop", "awaitToken"} -> "EXECUTING_TOOLS"
      [] g_pc = "awaitFollowup" -> "AWAITING_FOLLOWUP"
      [] g_pc = "returned" -> "DONE"
      [] g_pc = "rejected" -> "REJECTED"

\* C1: when the follow-up generation call is issued, the tool-result turn
\* holds exactly one functionResponse for every function call of the initial
\* response, whatever its name: as many results as calls, the i-th result
\* carrying the i-th call's name.
C1_OneResultPerCall ==
    g_pc = "awaitFollowup" =>
        /\ Len(g_results) = Len(functionCalls)
        /\ \A i \in 1..Len(g_results) :
              g_results[i].functionResponse.name = functionCalls[i].name

\* C2: the failure of a tool invocation (the weather request, the meeting
\* request or the retrieval call throwing) does not abort the round: the
\* request is never ended by it, so the other invocations are still executed
\* and the follow-up call is still issued.
C2_ToolFailureIsolated ==
    g_pc = "rejected" => g_rejection \notin ToolAwaits

\* C3: a request whose initial response asks for tool calls issues exactly
\* one follow-up generation call, after all tool executions; the tool calls
\* of the follow-up response are not executed and there is no third
\* generation call of the dispatcher.
C3_ExactlyOneFollowup ==
    /\ Cardinality(FollowupCalls) <= 1
    /\ \A i \in FollowupCalls : \A j \in ToolCalls : j < i
    /\ Finished /\ Len(functionCalls) > 0 => Cardinality(FollowupCalls) = 1

\* The transitions of the dispatcher's state machine.
MachineTransitions ==
    {<<"IDLE", "AWAITING_MODEL">>, <<"AWAITING_MODEL", "DONE">>,
     <<"AWAITING_MODEL", "EXECUTING_TOOLS">>, <<"EXECUTING_TOOLS", "AWAITING_FOLLOWUP">>,
     <<"AWAITING_FOLLOWUP", "DONE">>}

\* A request that is done went one of the two ways: no function calls, then
\* no tool call and no follow-up call were made and the initial text is the
\* answer; or function calls, then the follow-up call was made and its text
\* is the answer.
DoneByOneOfTwoPaths ==
    g_pc = "returned" =>
        IF Len(functionCalls) = 0
        THEN ToolCalls = {} /\ FollowupCalls = {} /\ g_answer = g_chatModel.text
        ELSE Cardinality(FollowupCalls) = 1 /\ g_answer = g_functionRes.text

\* A step that issues a call of the tool round starts and ends in
\* EXECUTING_TOOLS: after the initial response, before the follow-up call.
ToolCallsOnlyWhileExecuting ==
    Len(g_log') > Len(g_log) /\ g_log'[Len(g_log')].inv > 0 =>
        DispatcherState = "EXECUTING_TOOLS" /\ DispatcherState' = "EXECUTING_TOOLS"

\* C4: a request only takes the transitions AWAITING_MODEL -> DONE (no
\* function calls: no tool, no follow-up, the initial text returned) or
\* AWAITING_MODEL -> EXECUTING_TOOLS -> AWAITING_FOLLOWUP -> DONE, or ends
\* abnormally because an awaited call failed; tool calls are issued only in
\* EXECUTING_TOOLS; and a request that was started ends, in DONE unless a
\* call failed.
C4_StateMachine ==
    /\ [][DispatcherState' # DispatcherState =>
             \/ <<DispatcherState, DispatcherState'>> \in MachineTransitions
             \/ DispatcherState' = "REJECTED" /\ g_pc \in UncaughtAwaits /\ g_rejection' = g_pc]_vars
    /\ [][ToolCallsOnlyWhileExecuting]_vars
    /\ []DoneByOneOfTwoPaths
    /\ [](g_pc = "rejected" => g_rejection \in UncaughtAwaits)
    /\ (g_pc # "idle") ~> (g_pc = "returned" \/ g_pc = "rejected")

\* A request went through the tool round and is done.
C4_Witness ==
    /\ g_pc = "returned"
    /\ Len(functionCalls) = MaxCalls
    /\ Len(g_results) = MaxCalls
    /\ Cardinality(ToolCalls) > MaxCalls

\* C5: a function call whose name has no branch is not ignored: when the
\* follow-up call is issued the tool-result turn holds a result (empty or
\* error-shaped) for that name.
C5_UnknownToolGetsResult ==
    g_pc = "awaitFollowup" =>
        \A i \in 1..Len(functionCalls) :
            functionCalls[i].name \notin HandledTools =>
                \E j \in 1..Len(g_results) :
                    g_results[j].functionResponse.name = functionCalls[i].name

\* C6: a failed token fetch is not passed over: no meeting-creation request
\* is issued with a token that is null or undefined.
C6_NoMeetingRequestWithoutToken ==
    \A i \in 1..Len(g_log) :
        g_log[i].call = "fetch meeting" => g_log[i].bearer \notin {Null, Undefined}

\* C7: a response with neither text nor function calls is an EmptyResponse
\* error: handleGenerate never returns such a response's text as its answer.
C7_EmptyResponseSurfaced ==
    g_pc = "returned" =>
        /\ ~(Len(functionCalls) = 0 /\ g_chatModel.text = Undefined)
        /\ ~(Len(functionCalls) > 0 /\ g_functionRes.text = Undefined
             /\ Len(g_functionRes.functionCalls) = 0)

(***************************************************************************)
(* Properties of chunkText (ChunkSpec)                                     *)
(***************************************************************************)
\* C8: for chunkSize > 0 the chunks returned, concatenated in order, are the
\* text; every chunk but the last has length chunkSize and the last has a
\* length in 1..chunkSize.
C8_ChunksPartitionText ==
    ct_pc = "returned" /\ ct_chunkSize > 0 =>
        /\ Concat(ct_chunks) = ct_text
        /\ \A k \in 1..Len(ct_chunks) - 1 : Len(ct_chunks[k]) = ct_chunkSize
        /\ ct_chunks # <<>> => Len(ct_chunks[Len(ct_chunks)]) \in 1..ct_chunkSize

\* chunkText returned several chunks, the last one short.
C8_Witness ==
    /\ ct_pc = "returned"
    /\ ct_chunkSize > 1
    /\ Len(ct_chunks) > 1
    /\ Len(ct_chunks[Len(ct_chunks)]) < ct_chunkSize

\* C9: with chunkSize <= 0 chunkText fails: it neither collects chunks nor
\* returns; and with chunkSize > 0 the empty text yields no chunks.
C9_NonPositiveChunkSizeFails ==
    /\ ct_chunkSize <= 0 => ct_chunks = <<>> /\ ct_pc # "returned"
    /\ ct_pc = "returned" /\ ct_chunkSize > 0 /\ ct_text = <<>> => ct_chunks = <<>>

(***************************************************************************)
(* Properties of the retrieval step of handleChat (ChatSpec)               *)
(***************************************************************************)
\* The match is the store's j-th entry.
IsEntry(match, j) ==
    /\ match.id = vectorStore[j].id
    /\ match.embedding = vectorStore[j].embedding
    /\ match.text = vectorStore[j].text
    /\ match.documentId = vectorStore[j].documentId

\* C10: the retrieval step returns at most TopK matches, each an entry of
\* the store, and no entry twice.
C10_AtMostKFromStore ==
    /\ Len(c_similarDocs) <= TopK
    /\ \A i \in 1..Len(c_similarDocs) : \E j \in 1..Len(vectorStore) : IsEntry(c_similarDocs[i], j)
    /\ \A i, k \in 1..Len(c_similarDocs) : i # k => c_similarDocs[i].id # c_similarDocs[k].id

\* The store holds more than TopK entries and the retrieval returned TopK.
C10_Witness ==
    /\ c_pc = "awaitGenerate"
    /\ Len(vectorStore) > TopK
    /\ Len(c_similarDocs) = TopK

\* handleChat has ranked the store: similarDocs is set.
Ranked == c_pc \in {"awaitGenerate", "returned"}

\* The similarity the store's j-th entry has to the query of the request.
SimilarityOf(j) == cosineSimilarity(c_queryEmbedding, vectorStore[j].embedding)

\* x < y as JavaScript has it: false when either is NaN.
Less(x, y) == ~x.nan /\ ~y.nan /\ NumLess(x, y)

\* The match is not among similarDocs.
Excluded(j) == \A i \in 1..Len(c_similarDocs) : c_similarDocs[i].id # vectorStore[j].id

\* C11: the matches are ordered by non-increasing similarity (no match has
\* a lower similarity than one behind it) and are a top-k set (no entry
\* left out has a higher similarity than a match), whatever the lengths of
\* the query vector and of the stored ones.
C11_RankedTopK ==
    Ranked =>
        /\ \A i, k \in 1..Len(c_similarDocs) :
              i < k => ~Less(c_similarDocs[i].similarity, c_similarDocs[k].similarity)
        /\ \A j \in 1..Len(vectorStore), i \in 1..Len(c_similarDocs) :
              Excluded(j) => ~Less(c_similarDocs[i].similarity, SimilarityOf(j))

\* Two similarities are equal numbers.
Equal(x, y) == ~x.nan /\ ~y.nan /\ ~NumLess(x, y) /\ ~NumLess(y, x)

\* The position in the store of the entry a match was made from.
PositionOf(match) == CHOOSE j \in 1..Len(vectorStore) : vectorStore[j].id = match.id

\* C12: the ranking is stable: matches of equal similarity appear in the
\* order of their insertion into the store, and of two entries of equal
\* similarity the later one is never kept while the earlier one is left out.
C12_StableRanking ==
    Ranked =>
        /\ \A i, k \in 1..Len(c_similarDocs) :
              i < k /\ Equal(c_similarDocs[i].similarity, c_similarDocs[k].similarity)
                  => PositionOf(c_similarDocs[i]) < PositionOf(c_similarDocs[k])
        /\ \A j, l \in 1..Len(vectorStore) :
              j < l /\ Equal(SimilarityOf(j), SimilarityOf(l)) /\ Excluded(j) => Excluded(l)

SameDimensions ==
    \A j \in 1..Len(vectorStore) : Len(vectorStore[j].embedding) = Len(c_queryEmbedding)

C14_DimensionMismatchDetected ==
    Ranked => SameDimensions

(***************************************************************************)
(* Properties of cosineSimilarity (CosSpec)                                *)
(***************************************************************************)
\* C15: for vectors of equal length of which one has magnitude zero,
\* cosineSimilarity returns exactly 0 and does not execute the division.
C15_ZeroMagnitudeGivesZero ==
    cs_pc = "returned" /\ Len(cs_vecA) = Len(cs_vecB)
            /\ (SumSquares(cs_vecA) = 0 \/ SumSquares(cs_vecB) = 0)
        => cs_result = Num(0, 1) /\ ~cs_divided

\* A non-zero vector was compared with the zero vector of its length.
C15_Witness ==
    /\ cs_pc = "returned"
    /\ Len(cs_vecA) = MaxDim
    /\ Len(cs_vecB) = MaxDim
    /\ SumSquares(cs_vecA) # 0
    /\ SumSquares(cs_vecB) = 0
    /\ cs_result = Num(0, 1)

(***************************************************************************)
(* Properties of handleFileUpload on the in-process store (UploadSpec)     *)
(***************************************************************************)
\* The entries of the store that carry documentId d, in the store's order.
EntriesOf(d) == SelectSeq(vectorStore, LAMBDA e : e.documentId = d)

\* Characters from (0-based) up to to (exclusive) of the text.
Piece(text, from, to) == SubSeq(text, from + 1, to)

\* C16: when handleFileUpload has returned a documentId for a text of
\* length L, the store holds exactly ceil(L / 1000) entries with that
\* documentId, the i-th of them holding the i-th piece of 1000 characters
\* of the text (the last piece holding the rest).
C16_UploadStoresEveryChunk ==
    \A p \in Uploaders :
        u_pc[p] = "returned" =>
            LET L == Len(u_text[p])
                entries == EntriesOf(u_result[p])
            IN  /\ u_result[p] = u_documentId[p]
                /\ u_result[p] # NoDocumentId
                /\ Len(entries) = (L + 999) \div 1000
                /\ \A i \in 1..Len(entries) :
                      entries[i].text = Piece(u_text[p], 1000 * (i - 1), Min(1000 * i, L))

\* An upload of 2400 characters has returned and its entries hold 1000,
\* 1000 and 400 characters, while the store also holds another document's.
C16_Witness ==
    \E p \in Uploaders :
        /\ u_pc[p] = "returned"
        /\ Len(u_text[p]) = 2400
        /\ Len(EntriesOf(u_result[p])) = 3
        /\ Len(EntriesOf(u_result[p])[1].text) = 1000
        /\ Len(EntriesOf(u_result[p])[2].text) = 1000
        /\ Len(EntriesOf(u_result[p])[3].text) = 400
        /\ Len(vectorStore) > 3

\* The upload p of services.ts was rejected while it awaited an embedding
\* (that of chunk u_idx[p]).
EmbeddingFailed(p) == u_pc[p] = "rejected" /\ u_idx[p] > 0

\* The upload of part_000 was rejected while it awaited an embedding (that
\* of chunk ru_idx).
RemoteEmbeddingFailed == ru_pc = "rejected" /\ ru_rejection.await = "awaitEmbed"

\* C17: when the embedding call for chunk i of an upload has failed, the
\* embedding calls of that upload are those for the chunks 1..i and no
\* other, only the chunks before i are stored (in the remote version none
\* is, and no upsert was issued), and no documentId is returned.
C17_EmbeddingFailureAborts ==
    /\ \A p \in Uploaders :
          EmbeddingFailed(p) =>
              /\ u_calls[p] = [k \in 1..u_idx[p] |-> EmbedCall(k)]
              /\ Len(EntriesOf(u_documentId[p])) = u_idx[p] - 1
              /\ u_result[p] = NoDocumentId
    /\ RemoteEmbeddingFailed =>
              /\ ru_calls = [k \in 1..ru_idx |-> EmbedCall(k)]
              /\ Len(ru_vectorsToUpsert) = ru_idx - 1
              /\ ru_index = <<>>
              /\ ru_result = NoDocumentId

\* The embedding call for the second of three chunks failed: the first
\* chunk is stored, the third was never sent.
C17_Witness ==
    \E p \in Uploaders :
        /\ EmbeddingFailed(p)
        /\ Len(u_chunks[p]) = 3
        /\ u_idx[p] = 2
        /\ Len(EntriesOf(u_documentId[p])) = 1

\* The same in the remote version, with more chunks than one batch holds.
RemoteEmbeddingFailedLate ==
    RemoteEmbeddingFailed /\ Len(ru_chunks) > BatchSize /\ ru_idx > BatchSize

(***************************************************************************)
(* handleChat on the empty store (ChatSpec)                                *)
(***************************************************************************)
\* The generation calls handleChat has issued.
GenerationCalls == SelectSeq(c_log, LAMBDA call : call.call = "generateContent")

\* C18: with an empty store handleChat goes on after the embedding of the
\* query: no match, a prompt whose context is empty, and exactly one
\* generation call, which carries that prompt; it returns only after that
\* call, with the text of the response.
C18_EmptyStoreStillGenerates ==
    vectorStore = <<>> =>
        /\ c_pc \in {"awaitGenerate", "returned"} =>
              /\ c_similarDocs = <<>>
              /\ c_prompt = <<"CONTEXT:", "QUESTION:">> \o c_query
              /\ Len(GenerationCalls) = 1
              /\ GenerationCalls[1].contents = c_prompt
        /\ c_pc = "returned" => c_answer \in ResponseTexts
        /\ c_pc \in {"idle", "awaitEmbed"} => GenerationCalls = <<>> /\ c_answer = Undefined
        /\ Len(GenerationCalls) <= 1

\* handleChat has returned the text of the generation call on the empty store.
C18_Witness ==
    /\ vectorStore = <<>>
    /\ c_pc = "returned"
    /\ c_answer = "answer"
    /\ Len(GenerationCalls) = 1

(***************************************************************************)
(* handleFileUpload on the remote index (RemoteUploadSpec)                 *)
(***************************************************************************)
\* The upload was rejected while it awaited the upsert of the batch that
\* starts at ru_i.
UpsertFailed == ru_pc = "rejected" /\ ru_rejection.await = "awaitUpsert"

\* C19: when the upsert of a batch has failed, the error the caller gets
\* names the range of the entries of that batch.
C19_UpsertFailureNamesRange ==
    UpsertFailed =>
        /\ "range" \in DOMAIN ru_rejection.reason
        /\ ru_rejection.reason.range = <<ru_i, Min(ru_i + BatchSize, Len(ru_vectorsToUpsert))>>

(***************************************************************************)
(* The in-process store under interleaved requests (ServiceSpec)           *)
(***************************************************************************)
\* No two entries of the store share an id.
UniqueIds ==
    \A j, l \in 1..Len(vectorStore) : j # l => vectorStore[j].id # vectorStore[l].id

\* A step keeps every entry of the store, with all its fields, at its position.
KeepsEntries ==
    /\ Len(vectorStore') >= Len(vectorStore)
    /\ \A j \in 1..Len(vectorStore) : vectorStore'[j] = vectorStore[j]

\* A step of handleChat.
ChatStep == chatOnlyVars' # chatOnlyVars

\* C20: the store is append-only with unique ids: no step of an upload, a
\* chat or a generate request removes, moves or changes an entry, no two
\* entries ever share an id, and a step of handleChat leaves the store as it is.
C20_StoreAppendOnlyUniqueIds ==
    /\ []UniqueIds
    /\ [][KeepsEntries /\ (ChatStep => vectorStore' = vectorStore)]_vars

\* Both uploads have stored their two chunks, interleaved, and the chat that
\* ranked the store while it held fewer entries has returned.
C20_Witness ==
    /\ Len(vectorStore) = 4
    /\ vectorStore[1].documentId # vectorStore[2].documentId
    /\ c_pc = "returned"
    /\ Len(c_similarDocs) \in 1..3
    /\ sg_pc = "returned"

(***************************************************************************)
(* Chats and uploads interleaved (ServiceSpec)                             *)
(***************************************************************************)
\* C21 as stated: the matches of a query are entries the store held when
\* handleChat was called, and none of those is missed (up to TopK).
C21_RanksStoreAtCall ==
    Ranked =>
        /\ \A i \in 1..Len(c_similarDocs) : PositionOf(c_similarDocs[i]) <= c_lenAtCall
        /\ Len(c_similarDocs) = Min(TopK, c_lenAtCall)

\* C21 amended: the step that ranks, taken when the embedding of the query
\* has arrived, ranks exactly the entries the store holds at that step:
\* every match is one of them and (up to TopK) none is missed, those
\* appended since handleChat was called included; and the matches do not
\* change afterwards, whatever is appended.
C21_RanksStoreAtEmbeddingReturn ==
    [][/\ c_pc = "awaitEmbed" /\ c_pc' = "awaitGenerate" =>
             /\ vectorStore' = vectorStore
             /\ Len(c_similarDocs') = Min(TopK, Len(vectorStore))
             /\ \A i \in 1..Len(c_similarDocs') :
                   \E j \in 1..Len(vectorStore) :
                       /\ c_similarDocs'[i].id = vectorStore[j].id
                       /\ c_similarDocs'[i].text = vectorStore[j].text
             /\ \A i, k \in 1..Len(c_similarDocs') :
                   i # k => c_similarDocs'[i].id # c_similarDocs'[k].id
       /\ c_pc \in {"awaitGenerate", "returned"} => c_similarDocs' = c_similarDocs]_vars

\* The query ranked an entry that was appended after handleChat was called,
\* and an entry appended after the ranking is not among the matches.
C21_Witness ==
    /\ Ranked
    /\ Len(c_similarDocs) > c_lenAtCall
    /\ Len(vectorStore) > Len(c_similarDocs)
    /\ Len(vectorStore) <= TopK

(***************************************************************************)
(* Concurrent uploads on the in-process store (UploadSpec)                 *)
(***************************************************************************)
\* How many chunks of the upload p are stored: those before the one whose
\* embedding is awaited or failed, or all once the upload has returned.
StoredChunks(p) ==
    IF u_pc[p] = "returned" THEN Len(u_chunks[p])
    ELSE IF u_idx[p] > 0 THEN u_idx[p] - 1
    ELSE 0

\* C22: under every interleaving of the uploads, each entry of the store
\* belongs to exactly one upload (the uploads' documentIds differ and no id
\* occurs twice), the entries of each upload are its stored chunks in chunk
\* order, none is lost (the store's length is the sum of the uploads'
\* stored chunks: of all their chunks once all have returned).
C22_ConcurrentUploadsDisjointOrdered ==
    /\ UniqueIds
    /\ \A p, q \in Uploaders :
          p # q /\ u_pc[p] # "idle" /\ u_pc[q] # "idle" => u_documentId[p] # u_documentId[q]
    /\ \A j \in 1..Len(vectorStore) :
          \E p \in Uploaders : vectorStore[j].documentId = u_documentId[p]
    /\ \A p \in Uploaders :
          LET entries == EntriesOf(u_documentId[p])
          IN  /\ Len(entries) = StoredChunks(p)
              /\ \A i \in 1..Len(entries) : entries[i].text = u_chunks[p][i]
    /\ (\A p \in Uploaders : u_pc[p] = "returned") =>
          Len(vectorStore) = Len(u_chunks["u1"]) + Len(u_chunks["u2"])

\* Two uploads of three chunks each have returned and their entries are
\* interleaved in the store.
C22_Witness ==
    /\ \A p \in Uploaders : u_pc[p] = "returned" /\ Len(u_chunks[p]) = 3
    /\ Len(vectorStore) = 6
    /\ vectorStore[1].documentId # vectorStore[2].documentId
    /\ vectorStore[2].documentId # vectorStore[3].documentId

(***************************************************************************)
(* The embedding calls of one upload, in either version (EitherUploadSpec) *)
(***************************************************************************)
\* The embedding calls the remote upload has issued.
RemoteEmbedCalls == SelectSeq(ru_calls, LAMBDA call : call.call = "embedContent")

\* The calls are those for the chunks 1..n in this order, each once.
InChunkOrder(calls) == calls = [k \in 1..Len(calls) |-> EmbedCall(k)]

\* C23: the embedding calls of an upload are issued one by one in chunk
\* order: the calls issued are those for chunks 1..n, each once; all but the
\* last have returned (their vectors are pushed), and the last is
\* outstanding exactly while the upload awaits it; when the upload has
\* returned, every chunk has been embedded exactly once.
C23_EmbeddingCallsSequential ==
    /\ \A p \in Uploaders :
          /\ InChunkOrder(u_calls[p])
          /\ Len(u_calls[p]) <= Len(u_chunks[p])
          /\ Len(u_calls[p]) - Len(EntriesOf(u_documentId[p])) \in {0, 1}
          /\ u_pc[p] = "awaitEmbed" => Len(u_calls[p]) - Len(EntriesOf(u_documentId[p])) = 1
          /\ u_pc[p] = "returned" =>
                Len(u_calls[p]) = Len(u_chunks[p])
                    /\ Len(EntriesOf(u_documentId[p])) = Len(u_chunks[p])
    /\ InChunkOrder(RemoteEmbedCalls)
    /\ Len(RemoteEmbedCalls) <= Len(ru_chunks)
    /\ Len(RemoteEmbedCalls) - Len(ru_vectorsToUpsert) \in {0, 1}
    /\ ru_pc = "awaitEmbed" => Len(RemoteEmbedCalls) - Len(ru_vectorsToUpsert) = 1
    /\ ru_pc \in {"awaitUpsert", "returned"} =>
          Len(RemoteEmbedCalls) = Len(ru_chunks) /\ Len(ru_vectorsToUpsert) = Len(ru_chunks)

\* An upload of three chunks awaits the embedding of its third chunk: the
\* first two calls have returned and their vectors are stored.
C23_Witness ==
    \E p \in Uploaders :
        /\ u_pc[p] = "awaitEmbed"
        /\ Len(u_chunks[p]) = 3
        /\ Len(u_calls[p]) = 3
        /\ Len(EntriesOf(u_documentId[p])) = 2

(***************************************************************************)
(* The batches of the remote upload (RemoteUploadSpec)                     *)
(***************************************************************************)
\* The upsert calls the remote upload has issued.
UpsertCalls == SelectSeq(ru_calls, LAMBDA call : call.call = "upsert")

\* The ids of the vectors submitted so far, batch after batch.
SubmittedIds == Concat([j \in 1..Len(UpsertCalls) |-> UpsertCalls[j].ids])

\* The ids of the first n of the vectors v.
IdsOf(v, n) == [k \in 1..n |-> v[k].id]

\* The upsert of the last batch submitted has not completed.
UpsertOutstanding == ru_pc = "awaitUpsert" \/ UpsertFailed

\* C24: the batches submitted are consecutive pieces of vectorsToUpsert in
\* order, so that no vector is submitted twice and, when the upload has
\* returned, every vector has been submitted once; every batch has at most
\* 100 vectors and every batch but the last exactly 100; and a batch is
\* submitted only when the upserts of all batches before it have completed:
\* the index holds all submitted vectors but those of an outstanding batch.
C24_BatchesPartitionSequential ==
    /\ Len(SubmittedIds) <= Len(ru_vectorsToUpsert)
    /\ SubmittedIds = IdsOf(ru_vectorsToUpsert, Len(SubmittedIds))
    /\ \A k, l \in 1..Len(ru_vectorsToUpsert) :
          k # l => ru_vectorsToUpsert[k].id # ru_vectorsToUpsert[l].id
    /\ \A j \in 1..Len(UpsertCalls) :
          /\ Len(UpsertCalls[j].ids) \in 1..100
          /\ j < Len(UpsertCalls) => Len(UpsertCalls[j].ids) = 100
    /\ ru_pc = "returned" => Len(SubmittedIds) = Len(ru_vectorsToUpsert)
    /\ ru_pc = "returned" /\ UpsertCalls # <<>> =>
          Len(UpsertCalls[Len(UpsertCalls)].ids) = ((Len(ru_vectorsToUpsert) - 1) % 100) + 1
    /\ IdsOf(ru_index, Len(ru_index)) =
          IdsOf(ru_vectorsToUpsert,
                Len(SubmittedIds) - (IF UpsertOutstanding
                                     THEN Len(UpsertCalls[Len(UpsertCalls)].ids) ELSE 0))

\* The second batch, of one vector, was submitted after the upsert of the
\* first batch of 100 had completed.
C24_Witness ==
    /\ ru_pc = "awaitUpsert"
    /\ Len(UpsertCalls) = 2
    /\ Len(UpsertCalls[1].ids) = 100
    /\ Len(UpsertCalls[2].ids) = 1
    /\ Len(ru_index) = 100

\* The names of the calls of the round that a branch executed, in the order
\* the model requested them.
ExecutedNames ==
    LET names == [i \in 1..Len(functionCalls) |-> functionCalls[i].name]
    IN  SelectSeq(names, LAMBDA n : n \in HandledTools)
\* The generation calls handleGenerate issued, in the order it issued them.
DispatcherCallSeq ==
    SelectSeq(g_log, LAMBDA c : c.by = "handleGenerate" /\ c.call = "generateContent")
\* The follow-up call carries the initial call's conversation (the history
\* the caller supplied, then the new user turn) followed by one more turn,
\* whose parts are the results of the round in request order.
FollowupExtendsInitial ==
    LET calls == DispatcherCallSeq
    IN  /\ Len(calls) <= 2
        /\ Len(calls) >= 1 => calls[1].contents = g_history \o <<TextTurn("user", g_query)>>
        /\ Len(calls) = 2 =>
              /\ Len(calls[2].contents) = Len(calls[1].contents) + 1
              /\ SubSeq(calls[2].contents, 1, Len(calls[1].contents)) = calls[1].contents
              /\ calls[2].contents[Len(calls[2].contents)].parts = g_results
              /\ [j \in 1..Len(g_results) |-> g_results[j].functionResponse.name]
                     = ExecutedNames
\* From the call of handleGenerate on, the history it was given stays as it is.
HistoryKept == g_pc # "idle" => g_history' = g_history

\* C25: the conversation of the follow-up call is the conversation of the
\* initial call (the caller's history unchanged and in order, then the new
\* user turn) extended by exactly one tool-result turn that holds the results
\* of the round in request order, and the caller's history is never changed.
C25_FollowupExtendsInitialConversation ==
    []FollowupExtendsInitial /\ [][HistoryKept]_vars

\* A follow-up call is outstanding for a request that came with a history and
\* whose round produced two results.
C25_Witness ==
    /\ g_pc = "awaitFollowup"
    /\ g_history # <<>>
    /\ Len(g_results) = 2
    /\ Len(DispatcherCallSeq) = 2

\* The function names the initial generation call offered to the model.
OfferedTools == IF DispatcherCallSeq = <<>> THEN {} ELSE DispatcherCallSeq[1].tools

\* C26: every tool declared to the model has a dispatch branch: once the loop
\* has passed a call whose name the initial generation call offered, the
\* results hold a result carrying that name.
C26_DeclaredToolsDispatched ==
    \A i \in 1..Len(functionCalls) :
        (g_pc \in {"loop", "awaitFollowup", "returned"} /\ i < g_idx
            /\ functionCalls[i].name \in OfferedTools) =>
                \E j \in 1..Len(g_results) :
                    g_results[j].functionResponse.name = functionCalls[i].name

(***************************************************************************)
(* What an embedding failure leaves behind (EitherUploadSpec)              *)
(***************************************************************************)
\* Every chunk of the remote upload has been embedded: one vector per chunk,
\* the k-th holding the k-th chunk.
AllChunksEmbedded ==
    /\ Len(RemoteEmbedCalls) = Len(ru_chunks)
    /\ Len(ru_vectorsToUpsert) = Len(ru_chunks)
    /\ \A k \in 1..Len(ru_chunks) : ru_vectorsToUpsert[k].metadata.text = ru_chunks[k]

\* C27: in the remote upload an upsert is issued, and the index holds an
\* entry of the document, only when every chunk has been embedded; an
\* embedding failure on any chunk leaves no upsert call and an empty index,
\* whereas in the in-process upload a failure on chunk i leaves the entries
\* of the chunks 1..i-1 in the store.
C27_NoUpsertBeforeAllEmbedded ==
    /\ UpsertCalls # <<>> => AllChunksEmbedded
    /\ ru_index # <<>> => UpsertCalls # <<>>
    /\ RemoteEmbeddingFailed => UpsertCalls = <<>> /\ ru_index = <<>>
    /\ \A p \in Uploaders :
          EmbeddingFailed(p) =>
              LET entries == EntriesOf(u_documentId[p])
              IN  entries = [k \in 1..(u_idx[p] - 1) |->
                                [id |-> entries[k].id, text |-> u_chunks[p][k],
                                 embedding |-> entries[k].embedding,
                                 documentId |-> u_documentId[p]]]

\* The embedding of a chunk after the first full batch failed in the remote
\* upload: a batch of vectors was ready, and the index is empty.
C27_Witness ==
    /\ RemoteEmbeddingFailed
    /\ Len(ru_vectorsToUpsert) >= BatchSize
    /\ ru_idx = Len(ru_vectorsToUpsert) + 1
    /\ UpsertCalls = <<>>
    /\ ru_index = <<>>

\* The in-process counterpart: the embedding of the third chunk failed and
\* the first two chunks are in the store.
InProcessFailureKeepsEntries ==
    \E p \in Uploaders :
        /\ EmbeddingFailed(p)
        /\ u_idx[p] = 3
        /\ Len(EntriesOf(u_documentId[p])) = 2

====
